---- MODULE Spec2Model ----
(***************************************************************************)
(* The four EC2 VPC modules of cloud/amazon: ec2_vpc_customer_gateway,     *)
(* ec2_vpc_vpn_gateway, ec2_vpc_dhcp_options_set, ec2_vpc_vpn_connection.  *)
(* Every module is the same reconcile-by-Name-tag program over one kind of *)
(* resource.  One invocation of a module is a process that advances one    *)
(* provider call at a time; the provider is the listing of the resources   *)
(* of the kind and the EC2 tag table.                                      *)
(***************************************************************************)
EXTENDS Integers, Sequences, FiniteSets, TLC

VARIABLES
    kind,       \* which of the four modules is being run
    resources,  \* the provider's listing of the kind, in listing order
    tags,       \* the EC2 tag table: a set of <<resource id, key, value>>
    nextId,     \* the next id the provider hands out
    inv,        \* per invocation: parameters, position, locals, result
    prev        \* per invoker: summary of its previous invocation

vars == <<kind, resources, tags, nextId, inv, prev>>

----------------------------------------------------------------------------
(* Bounds of the model *)

\* ids the provider hands out in one behaviour (initial resources included)
MaxId == 2
\* seconds an await loop may sleep in one behaviour
MaxClock == 3
\* length of the provider's scripted answers to connection state queries
MaxScript == 3

----------------------------------------------------------------------------
(* Values *)

Kinds == {"cgw", "vgw", "dhcp", "vpn"}
Procs == {1, 2}
Names == {"a", "b"}

\* Python's None and a present value, for optional module parameters
None == <<>>
Some(x) == <<x>>
Get(o) == o[1]

RECURSIVE SeqsUpTo(_, _)
SeqsUpTo(S, n) ==
    IF n = 0 THEN {<<>>}
    ELSE LET shorter == SeqsUpTo(S, n - 1)
         IN  shorter \cup {Append(s, x) : s \in {t \in shorter : Len(t) = n - 1}, x \in S}

\* ---- customer gateway: type, ip_address, bgp_asn (all required)
CgwBase == [type |-> "ipsec.1", ip_address |-> "127.0.0.1", bgp_asn |-> 65000]
CgwSpecs ==
    { CgwBase,
      [CgwBase EXCEPT !.type = "ipsec.2"],
      [CgwBase EXCEPT !.ip_address = "127.0.0.2"],
      [CgwBase EXCEPT !.bgp_asn = 65001] }

\* ---- vpn gateway: type, vpc_id (both required)
VgwSpecs == [type : {"ipsec.1", "ipsec.2"}, vpc_id : {"vpc-A", "vpc-B"}]
\* attachment lists an existing gateway starts with (a gateway attached to
\* the desired vpc alone is what a run that creates leaves)
InitAttachments == { <<>>, <<"vpc-C", "vpc-A">>, <<"vpc-B", "vpc-C">> }

\* ---- dhcp options set: five optional parameters
DhcpBase ==
    [domain |-> Some("hq.mycorp.net"),
     domain_name_servers |-> Some(<<"172.30.0.1", "172.30.0.2">>),
     ntp_servers |-> None,
     netbios_name_servers |-> None,
     netbios_node_type |-> None]
DhcpSpecs ==
    { DhcpBase,
      [DhcpBase EXCEPT !.domain_name_servers = Some(<<"172.30.0.2", "172.30.0.1">>)],
      [DhcpBase EXCEPT !.domain_name_servers = Some(<<>>)],
      [DhcpBase EXCEPT !.domain_name_servers = None],
      [DhcpBase EXCEPT !.netbios_node_type = Some(2)] }

\* ---- vpn connection: type, customer_gateway_id, vpn_gateway_id,
\*      static_routes_only
VpnBase ==
    [type |-> "ipsec.1", customer_gateway_id |-> "cgw-1",
     vpn_gateway_id |-> "vgw-1", static_routes_only |-> FALSE]
VpnSpecs ==
    { VpnBase,
      [VpnBase EXCEPT !.type = "ipsec.2"],
      [VpnBase EXCEPT !.customer_gateway_id = "cgw-2"],
      [VpnBase EXCEPT !.vpn_gateway_id = "vgw-2"],
      [VpnBase EXCEPT !.static_routes_only = TRUE] }

SpecsOf(k) ==
    CASE k = "cgw" -> CgwSpecs
      [] k = "vgw" -> VgwSpecs
      [] k = "dhcp" -> DhcpSpecs
      [] k = "vpn" -> VpnSpecs

\* states a vpn connection can answer with; 'available' is the awaited one
ConnStates == {"pending", "available", "deleted"}
\* the provider's successive answers to one invocation's state queries; the
\* last answer repeats once the script is used up
Scripts == SeqsUpTo(ConnStates, MaxScript) \ {<<>>}
\* the connection stays in one state
SteadyScripts == {<<c>> : c \in ConnStates}
WaitTimeouts == {1, 2}

----------------------------------------------------------------------------
(* The dhcp options mapping *)

\* Python's str() of a non-negative integer
Digits == <<"0", "1", "2", "3", "4", "5", "6", "7", "8", "9">>
RECURSIVE str(_)
str(n) == IF n < 10 THEN Digits[n + 1] ELSE str(n \div 10) \o Digits[(n % 10) + 1]

\* mutant: a server list without values gets no key
build_options_NoEmpty(domain, domain_name_servers, ntp_servers, netbios_name_servers, netbios_node_type) ==
    LET given(o) == o # None /\ o # Some(<<>>)
        keys ==
            (IF domain # None THEN {"domain-name"} ELSE {})
            \cup (IF given(domain_name_servers) THEN {"domain-name-servers"} ELSE {})
            \cup (IF given(ntp_servers) THEN {"ntp-servers"} ELSE {})
            \cup (IF given(netbios_name_servers) THEN {"netbios-name-servers"} ELSE {})
            \cup (IF netbios_node_type # None THEN {"netbios-node-type"} ELSE {})
    IN  [k \in keys |->
            CASE k = "domain-name" -> <<Get(domain)>>
              [] k = "domain-name-servers" -> Get(domain_name_servers)
              [] k = "ntp-servers" -> Get(ntp_servers)
              [] k = "netbios-name-servers" -> Get(netbios_name_servers)
              [] k = "netbios-node-type" -> <<str(Get(netbios_node_type))>>]

\* build_options: the dict compared with the provider's options; a key is
\* set for every parameter that is not None
build_options(domain, domain_name_servers, ntp_servers, netbios_name_servers, netbios_node_type) ==
    LET keys ==
            (IF domain # None THEN {"domain-name"} ELSE {})
            \cup (IF domain_name_servers # None THEN {"domain-name-servers"} ELSE {})
            \cup (IF ntp_servers # None THEN {"ntp-servers"} ELSE {})
            \cup (IF netbios_name_servers # None THEN {"netbios-name-servers"} ELSE {})
            \cup (IF netbios_node_type # None THEN {"netbios-node-type"} ELSE {})
    IN  [k \in keys |->
            CASE k = "domain-name" -> <<Get(domain)>>
              [] k = "domain-name-servers" -> Get(domain_name_servers)
              [] k = "ntp-servers" -> Get(ntp_servers)
              [] k = "netbios-name-servers" -> Get(netbios_name_servers)
              [] k = "netbios-node-type" -> <<str(Get(netbios_node_type))>>]

DesiredOptions(spec) ==
    build_options(spec.domain, spec.domain_name_servers, spec.ntp_servers,
                  spec.netbios_name_servers, spec.netbios_node_type)

\* What the provider keeps of a create_dhcp_options call: one entry per
\* option that was given at least one value, the values as strings in the
\* order given.  An option given without a value (None, or an empty list)
\* has no entry.
StoredOptions(spec) ==
    LET all == DesiredOptions(spec)
        keys == {k \in DOMAIN all : Len(all[k]) > 0}
    IN  [k \in keys |-> all[k]]

----------------------------------------------------------------------------
(* The provider *)

\* the object a create call of the kind returns and the listing then holds
NewObject(k, id, spec) ==
    CASE k = "cgw" ->
            [id |-> id, type |-> spec.type, ip_address |-> spec.ip_address,
             bgp_asn |-> spec.bgp_asn]
      [] k = "vgw" -> [id |-> id, type |-> spec.type, attachments |-> <<>>]
      [] k = "dhcp" -> [id |-> id, options |-> StoredOptions(spec)]
      [] k = "vpn" ->
            [id |-> id, type |-> spec.type,
             customer_gateway_id |-> spec.customer_gateway_id,
             vpn_gateway_id |-> spec.vpn_gateway_id,
             static_routes_only |-> spec.static_routes_only]

\* objects the initial listing may hold (they were made by earlier runs or
\* by hand)
InitObjects(k, id) ==
    CASE k = "cgw" -> { NewObject(k, id, CgwBase) }
      [] k = "vgw" ->
            { [id |-> id, type |-> "ipsec.1", attachments |-> a] : a \in InitAttachments }
      [] k = "dhcp" ->
            { NewObject(k, id, s) :
                  s \in {DhcpBase,
                         [DhcpBase EXCEPT !.domain_name_servers =
                                              Some(<<"172.30.0.2", "172.30.0.1">>)]} }
      [] k = "vpn" -> { NewObject(k, id, VpnBase) }

\* tag sets an initial resource may carry
InitTagSets == { {}, {<<"Name", "a">>}, {<<"Name", "b">>} }

Ids(listing) == {listing[i].id : i \in DOMAIN listing}
Exists(id) == id \in Ids(resources)
Lookup(id) == resources[CHOOSE i \in DOMAIN resources : resources[i].id = id]

RECURSIVE Without(_, _)
Without(listing, id) ==
    IF listing = <<>> THEN <<>>
    ELSE IF Head(listing).id = id THEN Without(Tail(listing), id)
    ELSE <<Head(listing)>> \o Without(Tail(listing), id)

RECURSIVE SeqWithout(_, _)
SeqWithout(s, x) ==
    IF s = <<>> THEN <<>>
    ELSE IF Head(s) = x THEN SeqWithout(Tail(s), x)
    ELSE <<Head(s)>> \o SeqWithout(Tail(s), x)

Range(s) == {s[i] : i \in DOMAIN s}

\* ec2.get_all_tags(filters={'resource-id': id}) folded into tagdict.items()
TagItems(id) == { <<t[2], t[3]>> : t \in {u \in tags : u[1] = id} }

\* mutant: the provider keeps a Name value on one resource only
TagsAfterCreateTags_TakeOver(id, name) ==
    {t \in tags : ~(t[2] = "Name" /\ (t[1] = id \/ t[3] = name))} \cup {<<id, "Name", name>>}

\* ec2.create_tags(id, {'Name': name}): a key has one value per resource
TagsAfterCreateTags(id, name) ==
    {t \in tags : ~(t[1] = id /\ t[2] = "Name")} \cup {<<id, "Name", name>>}

\* the listing after delete_*(id); the resource's tags go with it
ResourcesAfterDelete(id) == Without(resources, id)
TagsAfterDelete(id) == {t \in tags : t[1] # id}

\* the listing after attach_vpn_gateway / detach_vpn_gateway
ResourcesAfterAttach(id, vpc) ==
    [i \in DOMAIN resources |->
        IF resources[i].id = id
        THEN [resources[i] EXCEPT !.attachments = Append(@, vpc)]
        ELSE resources[i]]
\* mutant: the vpc is detached from every gateway
ResourcesAfterDetach_Every(id, vpc) ==
    [i \in DOMAIN resources |->
        [resources[i] EXCEPT !.attachments = SeqWithout(@, vpc)]]

ResourcesAfterDetach(id, vpc) ==
    [i \in DOMAIN resources |->
        IF resources[i].id = id
        THEN [resources[i] EXCEPT !.attachments = SeqWithout(@, vpc)]
        ELSE resources[i]]

----------------------------------------------------------------------------
(* One invocation of a module *)

\* wait_timeout's default in the vpn connection module
DefaultWaitTimeout == 300

\* (wait, wait_timeout) a run may be given; only the vpn connection module
\* has the two parameters
WaitOptions(k) ==
    IF k = "vpn"
    THEN {<<FALSE, DefaultWaitTimeout>>, <<TRUE, 1>>}
    ELSE {<<FALSE, 0>>}

BaseSpec(k) ==
    CASE k = "cgw" -> CgwBase
      [] k = "vgw" -> [type |-> "ipsec.1", vpc_id |-> "vpc-A"]
      [] k = "dhcp" -> DhcpBase
      [] k = "vpn" -> VpnBase

\* what the module reports: exit_json(changed=, <id key>=, removed_ids=) or
\* fail_json(msg=)
NoOut == [changed |-> FALSE, id |-> None, removed_ids |-> None, msg |-> None]

IdleInv(k) ==
    [pc |-> "idle", state |-> "present", name |-> "a", spec |-> BaseSpec(k),
     wait |-> FALSE, wait_timeout |-> 0,
     listing |-> <<>>, idx |-> 0, att |-> 0,
     changed |-> FALSE, vpc_found |-> FALSE,
     cur |-> 0, removed |-> <<>>, calls |-> <<>>,
     answers |-> <<>>, deadline |-> 0, initial_state |-> "", clock |-> 0,
     queries |-> 0, sleeps |-> 0,
     before |-> [resources |-> <<>>, tags |-> {}], out |-> NoOut]

Terminal == {"idle", "done", "failed"}

Summary(r) ==
    [pc |-> r.pc, state |-> r.state, name |-> r.name, spec |-> r.spec,
     wait |-> r.wait, cur |-> r.cur, before |-> r.before, out |-> r.out]

\* a present run is remembered by the next run if that repeats its name and
\* spec
Remembered(k, r, name, spec) ==
    IF r.pc # "idle" /\ r.state = "present" /\ r.name = name /\ r.spec = spec
    THEN Summary(r) ELSE Summary(IdleInv(k))

Call(op, id, arg) == [op |-> op, id |-> id, arg |-> arg]

\* mutant: a resource without any tag is taken for the named one
NameMatches_OrUntagged(items, name) == <<"Name", name>> \in items \/ items = {}

\* mutant: the tag is looked up as (name, 'Name')
NameMatches_Swapped(items, name) == <<name, "Name">> \in items

\* ('Name', name) in set(tagdict.items())
NameMatches(items, name) == <<"Name", name>> \in items

\* mutant: the bgp_asn comparison is left out
CgwChanged_NoAsn(spec, obj) ==
    \/ spec.type # obj.type
    \/ spec.ip_address # obj.ip_address

\* the immutable-field comparisons of the present path
CgwChanged(spec, obj) ==
    \/ spec.type # obj.type
    \/ spec.ip_address # obj.ip_address
    \/ spec.bgp_asn # obj.bgp_asn

\* mutant: the routing mode is compared as well
VpnChanged_WithRouting(spec, obj) ==
    \/ spec.type # obj.type
    \/ spec.customer_gateway_id # obj.customer_gateway_id
    \/ spec.vpn_gateway_id # obj.vpn_gateway_id
    \/ spec.static_routes_only # obj.static_routes_only

VpnChanged(spec, obj) ==
    \/ spec.type # obj.type
    \/ spec.customer_gateway_id # obj.customer_gateway_id
    \/ spec.vpn_gateway_id # obj.vpn_gateway_id

DhcpChanged(spec, obj) == DesiredOptions(spec) # obj.options

VgwImmutableChanged(spec, obj) == spec.type # obj.type

Modified(k, spec, obj) ==
    CASE k = "cgw" -> CgwChanged(spec, obj)
      [] k = "dhcp" -> DhcpChanged(spec, obj)
      [] k = "vpn" -> VpnChanged(spec, obj)

FailMsg(k) ==
    CASE k = "cgw" -> "Customer gateway cannot be modified"
      [] k = "vgw" -> "VPN gateway cannot be modified in that way"
      [] k = "dhcp" -> "DHCP options cannot be modified"
      [] k = "vpn" -> "VPN connection cannot be modified"

\* main(): exit_json of the present path
PresentResult(id, changed) == [NoOut EXCEPT !.changed = changed, !.id = Some(id)]

\* mutant: the absent path reports changed=false whatever it removed
AbsentResult_Unchanged(k, removed) ==
    IF k = "dhcp"
    THEN NoOut
    ELSE [NoOut EXCEPT !.removed_ids = Some(removed)]

\* main(): exit_json of the absent path; the dhcp module reports changed
\* alone
AbsentResult(k, removed) ==
    IF k = "dhcp"
    THEN [NoOut EXCEPT !.changed = Len(removed) > 0]
    ELSE [NoOut EXCEPT !.changed = Len(removed) > 0, !.removed_ids = Some(removed)]

Exit(r, out) == [r EXCEPT !.pc = "done", !.out = out]
\* mutant: a failed run still reports changed when it has made changes
Fail_Partial(r, msg) ==
    [r EXCEPT !.pc = "failed",
              !.out = [NoOut EXCEPT !.msg = Some(msg), !.changed = (r.calls # <<>>)]]

Fail(r, msg) == [r EXCEPT !.pc = "failed", !.out = [NoOut EXCEPT !.msg = Some(msg)]]

\* mutant: the absent scan returns after its first delete
ScanFrom_FirstOnly(k, r, i) ==
    IF r.state = "absent" /\ r.removed # <<>>
    THEN Exit([r EXCEPT !.idx = i], AbsentResult(k, r.removed))
    ELSE IF i <= Len(r.listing) THEN [r EXCEPT !.pc = "tags", !.idx = i]
    ELSE IF r.state = "present" THEN [r EXCEPT !.pc = "create", !.idx = i]
    ELSE Exit([r EXCEPT !.idx = i], AbsentResult(k, r.removed))

\* the for loop over the listing, entered at index i: fetch the tags of the
\* next resource, or leave the loop (present: create; absent: return)
ScanFrom(k, r, i) ==
    IF i <= Len(r.listing) THEN [r EXCEPT !.pc = "tags", !.idx = i]
    ELSE IF r.state = "present" THEN [r EXCEPT !.pc = "create", !.idx = i]
    ELSE Exit([r EXCEPT !.idx = i], AbsentResult(k, r.removed))

\* create_vpn_gateway, after the attachments: the type check and the return
VgwFinish(r) ==
    IF VgwImmutableChanged(r.spec, r.listing[r.idx])
    THEN Fail(r, FailMsg("vgw"))
    ELSE Exit(r, PresentResult(r.listing[r.idx].id, r.changed))

\* mutant: attachments to other vpcs are kept, none is detached
VgwLoop_KeepStale(r) ==
    LET attachments == r.listing[r.idx].attachments
        found == r.spec.vpc_id \in Range(attachments)
        after == [r EXCEPT !.vpc_found = found, !.att = Len(attachments) + 1]
    IN  IF found THEN VgwFinish(after) ELSE [after EXCEPT !.pc = "attach"]

\* mutant: the attach is made whether or not the vpc was found
RECURSIVE VgwLoop_AlwaysAttach(_)
VgwLoop_AlwaysAttach(r) ==
    LET attachments == r.listing[r.idx].attachments
    IN  IF r.att > Len(attachments)
        THEN [r EXCEPT !.pc = "attach"]
        ELSE IF attachments[r.att] # r.spec.vpc_id
        THEN [r EXCEPT !.pc = "detach"]
        ELSE VgwLoop_AlwaysAttach([r EXCEPT !.vpc_found = TRUE, !.att = @ + 1])

\* create_vpn_gateway, the for loop over the attachments, entered at r.att:
\* stop at the next provider call (a detach, or the attach after the loop)
RECURSIVE VgwLoop(_)
VgwLoop(r) ==
    LET attachments == r.listing[r.idx].attachments
    IN  IF r.att > Len(attachments)
        THEN IF ~r.vpc_found THEN [r EXCEPT !.pc = "attach"] ELSE VgwFinish(r)
        ELSE IF attachments[r.att] # r.spec.vpc_id
        THEN [r EXCEPT !.pc = "detach"]
        ELSE VgwLoop([r EXCEPT !.vpc_found = TRUE, !.att = @ + 1])

\* mutant: with wait set, a matching vpn connection is awaited as well
PresentMatch_AwaitsMatch(k, r) ==
    IF k = "vgw"
    THEN VgwLoop([r EXCEPT !.changed = FALSE, !.vpc_found = FALSE, !.att = 1])
    ELSE IF Modified(k, r.spec, r.listing[r.idx])
    THEN Fail(r, FailMsg(k))
    ELSE IF k = "vpn" /\ r.wait
    THEN [r EXCEPT !.pc = "await", !.cur = r.listing[r.idx].id]
    ELSE Exit(r, PresentResult(r.listing[r.idx].id, FALSE))

\* mutant: a tagged resource that differs is passed over and the scan goes on
PresentMatch_SkipDiffering(k, r) ==
    IF k = "vgw"
    THEN VgwLoop([r EXCEPT !.changed = FALSE, !.vpc_found = FALSE, !.att = 1])
    ELSE IF Modified(k, r.spec, r.listing[r.idx])
    THEN ScanFrom(k, r, r.idx + 1)
    ELSE Exit(r, PresentResult(r.listing[r.idx].id, FALSE))

\* the body of the scan for a resource carrying the Name tag, present path
PresentMatch(k, r) ==
    IF k = "vgw"
    THEN VgwLoop([r EXCEPT !.changed = FALSE, !.vpc_found = FALSE, !.att = 1])
    ELSE IF Modified(k, r.spec, r.listing[r.idx])
    THEN Fail(r, FailMsg(k))
    ELSE Exit(r, PresentResult(r.listing[r.idx].id, FALSE))

\* mutant: the vpn connection module returns without awaiting
AfterTag_SkipWait(k, r) ==
    IF k = "vgw" THEN [r EXCEPT !.pc = "attach_new"]
    ELSE Exit(r, PresentResult(r.cur, TRUE))

\* after create_tags on the created resource
AfterTag(k, r) ==
    IF k = "vgw" THEN [r EXCEPT !.pc = "attach_new"]
    ELSE IF k = "vpn" /\ r.wait THEN [r EXCEPT !.pc = "await"]
    ELSE Exit(r, PresentResult(r.cur, TRUE))

\* get_connection_state: the q-th answer of the provider
Answer(answers, q) == answers[IF q <= Len(answers) THEN q ELSE Len(answers)]

\* mutant: the deadline is tested before the state
AfterPoll_DeadlineFirst(r, connection_state) ==
    IF r.clock >= r.deadline /\ connection_state # "pending"
    THEN Fail(r, "The vpn connection failed to be in the available state within the timeout period.")
    ELSE IF connection_state = "available" THEN Exit(r, PresentResult(r.cur, TRUE))
    ELSE [r EXCEPT !.pc = "sleep"]

\* mutant: a pending connection is held to the deadline like any other state
AfterPoll_PendingTimesOut(r, connection_state) ==
    IF connection_state = "available" THEN Exit(r, PresentResult(r.cur, TRUE))
    ELSE IF r.clock >= r.deadline
    THEN Fail(r, "The vpn connection failed to be in the available state within the timeout period.")
    ELSE [r EXCEPT !.pc = "sleep"]

\* mutant: a state that is neither pending nor the awaited one fails at once
AfterPoll_UnknownFails(r, connection_state) ==
    IF connection_state = "available" THEN Exit(r, PresentResult(r.cur, TRUE))
    ELSE IF connection_state = "pending" THEN [r EXCEPT !.pc = "sleep"]
    ELSE Fail(r, "The vpn connection failed to be in the available state within the timeout period.")

\* mutant: a pending connection is polled again at once, without the sleep
AfterPoll_NoSleep(r, connection_state) ==
    IF connection_state = "available" THEN Exit(r, PresentResult(r.cur, TRUE))
    ELSE IF connection_state = "pending" THEN [r EXCEPT !.pc = "poll"]
    ELSE IF r.clock >= r.deadline
    THEN Fail(r, "The vpn connection failed to be in the available state within the timeout period.")
    ELSE [r EXCEPT !.pc = "sleep"]

\* await_vpn_connection_state, one pass of the while loop after the query
AfterPoll(r, connection_state) ==
    IF connection_state = "available" THEN Exit(r, PresentResult(r.cur, TRUE))
    ELSE IF connection_state = "pending" THEN [r EXCEPT !.pc = "sleep"]
    ELSE IF r.clock >= r.deadline
    THEN Fail(r, "The vpn connection failed to be in the available state within the timeout period.")
    ELSE [r EXCEPT !.pc = "sleep"]

----------------------------------------------------------------------------
(* Initial states *)

RECURSIVE InitListings(_, _)
InitListings(k, n) ==
    IF n = 0 THEN {<<>>}
    ELSE {Append(l, o) : l \in InitListings(k, n - 1), o \in InitObjects(k, n)}

Init ==
    /\ kind \in Kinds
    /\ resources \in UNION {InitListings(kind, n) : n \in 0..MaxId}
    /\ tags \in { UNION { {<<id, kv[1], kv[2]>> : kv \in f[id]} : id \in DOMAIN f } :
                    f \in [1..Len(resources) -> InitTagSets] }
    /\ nextId = Len(resources) + 1
    /\ inv = [p \in Procs |-> IdleInv(kind)]
    /\ prev = [p \in Procs |-> Summary(IdleInv(kind))]

----------------------------------------------------------------------------
(* Actions: one per provider call of an invocation *)

Running(p) == inv[p].pc \notin Terminal

\* main(): the module is run with its parameters.  A present run may have to
\* create, so it starts only while the provider has an id left for it, or
\* when it runs alone and a resource carries its name (it will not create).
StartWith(p, specs, waits) ==
    /\ ~Running(p)
    /\ \E st \in {"present", "absent"}, n \in Names, s \in specs, w \in waits :
          /\ st = "absent" => ~w[1]
          /\ st = "present" =>
                \/ nextId + Cardinality({q \in Procs : Running(q) /\ inv[q].state = "present"
                                                        /\ inv[q].cur = 0}) <= MaxId
                \/ /\ \A q \in Procs : ~Running(q)
                   /\ \E i \in DOMAIN resources : NameMatches(TagItems(resources[i].id), n)
          /\ inv' = [inv EXCEPT ![p] =
                        [IdleInv(kind) EXCEPT !.pc = "list", !.state = st, !.name = n,
                                              !.spec = s, !.wait = w[1],
                                              !.wait_timeout = w[2],
                                              !.before = [resources |-> resources,
                                                          tags |-> tags]]]
          /\ prev' = [prev EXCEPT ![p] = Remembered(kind, inv[p], n, s)]
    /\ UNCHANGED <<kind, resources, tags, nextId>>

Start(p) == StartWith(p, SpecsOf(kind), WaitOptions(kind))

\* get_all_customer_gateways / get_all_vpn_gateways / get_all_dhcp_options /
\* get_all_vpn_connections: the objects as they are now
List(p) ==
    /\ inv[p].pc = "list"
    /\ inv' = [inv EXCEPT ![p] = ScanFrom(kind, [@ EXCEPT !.listing = resources], 1)]
    /\ UNCHANGED <<kind, resources, tags, nextId, prev>>

\* get_all_tags of the resource under the scan and the test of its Name tag
GetTags(p) ==
    /\ inv[p].pc = "tags"
    /\ LET r == inv[p]
           obj == r.listing[r.idx]
       IN  inv' = [inv EXCEPT ![p] =
                IF NameMatches(TagItems(obj.id), r.name)
                THEN IF r.state = "present"
                     THEN PresentMatch(kind, r)
                     ELSE [r EXCEPT !.pc = "delete"]
                ELSE ScanFrom(kind, r, r.idx + 1)]
    /\ UNCHANGED <<kind, resources, tags, nextId, prev>>

\* mutant: the absent path refuses to delete a resource that differs from
\* the spec
Delete_ChecksSpec(p) ==
    /\ inv[p].pc = "delete"
    /\ LET r == inv[p]
           obj == r.listing[r.idx]
           differs == IF kind = "vgw" THEN VgwImmutableChanged(r.spec, obj)
                      ELSE Modified(kind, r.spec, obj)
       IN  IF Exists(obj.id) /\ ~differs
           THEN /\ resources' = ResourcesAfterDelete(obj.id)
                /\ tags' = TagsAfterDelete(obj.id)
                /\ inv' = [inv EXCEPT ![p] =
                            ScanFrom(kind,
                                     [r EXCEPT !.removed = Append(@, obj.id),
                                               !.calls = Append(@, Call("delete", obj.id, ""))],
                                     r.idx + 1)]
           ELSE /\ inv' = [inv EXCEPT ![p] = Fail(r, FailMsg(kind))]
                /\ UNCHANGED <<resources, tags>>
    /\ UNCHANGED <<kind, nextId, prev>>

\* delete_customer_gateway / delete_vpn_gateway / delete_dhcp_options /
\* delete_vpn_connection of the matched resource, then the append
Delete(p) ==
    /\ inv[p].pc = "delete"
    /\ LET r == inv[p]
           id == r.listing[r.idx].id
       IN  IF Exists(id)
           THEN /\ resources' = ResourcesAfterDelete(id)
                /\ tags' = TagsAfterDelete(id)
                /\ inv' = [inv EXCEPT ![p] =
                            ScanFrom(kind,
                                     [r EXCEPT !.removed = Append(@, id),
                                               !.calls = Append(@, Call("delete", id, ""))],
                                     r.idx + 1)]
           ELSE /\ inv' = [inv EXCEPT ![p] = Fail(r, "provider error")]
                /\ UNCHANGED <<resources, tags>>
    /\ UNCHANGED <<kind, nextId, prev>>

\* create_customer_gateway / create_vpn_gateway / create_dhcp_options /
\* create_vpn_connection
Create(p) ==
    /\ inv[p].pc = "create"
    /\ resources' = Append(resources, NewObject(kind, nextId, inv[p].spec))
    /\ nextId' = nextId + 1
    /\ inv' = [inv EXCEPT ![p] =
                [@ EXCEPT !.pc = "tag", !.cur = nextId,
                          !.calls = Append(@, Call("create", nextId, ""))]]
    /\ UNCHANGED <<kind, tags, prev>>

\* ec2.create_tags(id, {'Name': name}) on the created resource
Tag(p) ==
    /\ inv[p].pc = "tag"
    /\ LET r == inv[p]
       IN  /\ tags' = TagsAfterCreateTags(r.cur, r.name)
           /\ inv' = [inv EXCEPT ![p] =
                        AfterTag(kind, [r EXCEPT !.calls = Append(@, Call("tag", r.cur, r.name))])]
    /\ UNCHANGED <<kind, resources, nextId, prev>>

\* create_vpn_gateway: attach_vpn_gateway of the created gateway
AttachNew(p) ==
    /\ inv[p].pc = "attach_new"
    /\ LET r == inv[p]
       IN  IF Exists(r.cur)
           THEN /\ resources' = ResourcesAfterAttach(r.cur, r.spec.vpc_id)
                /\ inv' = [inv EXCEPT ![p] =
                            Exit([r EXCEPT !.calls = Append(@, Call("attach", r.cur, r.spec.vpc_id))],
                                 PresentResult(r.cur, TRUE))]
           ELSE /\ inv' = [inv EXCEPT ![p] = Fail(r, "provider error")]
                /\ UNCHANGED resources
    /\ UNCHANGED <<kind, tags, nextId, prev>>

\* create_vpn_gateway: detach_vpn_gateway of an attachment to another vpc
Detach(p) ==
    /\ inv[p].pc = "detach"
    /\ LET r == inv[p]
           obj == r.listing[r.idx]
           vpc == obj.attachments[r.att]
       IN  IF Exists(obj.id) /\ vpc \in Range(Lookup(obj.id).attachments)
           THEN /\ resources' = ResourcesAfterDetach(obj.id, vpc)
                /\ inv' = [inv EXCEPT ![p] =
                            VgwLoop([r EXCEPT !.changed = TRUE, !.att = @ + 1,
                                              !.calls = Append(@, Call("detach", obj.id, vpc))])]
           ELSE /\ inv' = [inv EXCEPT ![p] = Fail(r, "provider error")]
                /\ UNCHANGED resources
    /\ UNCHANGED <<kind, tags, nextId, prev>>

\* create_vpn_gateway: attach_vpn_gateway of the matched gateway
Attach(p) ==
    /\ inv[p].pc = "attach"
    /\ LET r == inv[p]
           obj == r.listing[r.idx]
       IN  IF Exists(obj.id)
           THEN /\ resources' = ResourcesAfterAttach(obj.id, r.spec.vpc_id)
                /\ inv' = [inv EXCEPT ![p] =
                            VgwFinish([r EXCEPT !.changed = TRUE,
                                                !.calls = Append(@, Call("attach", obj.id, r.spec.vpc_id))])]
           ELSE /\ inv' = [inv EXCEPT ![p] = Fail(r, "provider error")]
                /\ UNCHANGED resources
    /\ UNCHANGED <<kind, tags, nextId, prev>>

\* await_vpn_connection_state, before the loop: the deadline and the first
\* state query (initial_state)
AwaitWith(p, scripts) ==
    /\ inv[p].pc = "await"
    /\ \E answers \in scripts :
          LET r == inv[p]
          IN  inv' = [inv EXCEPT ![p] =
                        [r EXCEPT !.pc = "poll", !.answers = answers,
                                  !.deadline = r.clock + r.wait_timeout,
                                  !.initial_state = Answer(answers, 1), !.queries = 1,
                                  !.calls = Append(@, Call("await", r.cur, "available"))]]
    /\ UNCHANGED <<kind, resources, tags, nextId, prev>>

AwaitStart(p) == AwaitWith(p, SteadyScripts)

\* await_vpn_connection_state, the state query of one pass of the loop
Poll(p) ==
    /\ inv[p].pc = "poll"
    /\ LET r == inv[p]
           q == r.queries + 1
       IN  inv' = [inv EXCEPT ![p] = AfterPoll([r EXCEPT !.queries = q], Answer(r.answers, q))]
    /\ UNCHANGED <<kind, resources, tags, nextId, prev>>

\* await_vpn_connection_state: time.sleep(1)
Sleep(p) ==
    /\ inv[p].pc = "sleep"
    /\ inv[p].clock < MaxClock
    /\ inv' = [inv EXCEPT ![p] = [@ EXCEPT !.pc = "poll", !.clock = @ + 1, !.sleeps = @ + 1]]
    /\ UNCHANGED <<kind, resources, tags, nextId, prev>>

Step(p) ==
    \/ Start(p)
    \/ List(p)
    \/ GetTags(p)
    \/ Delete(p)
    \/ Create(p)
    \/ Tag(p)
    \/ AttachNew(p)
    \/ Detach(p)
    \/ Attach(p)
    \/ AwaitStart(p)
    \/ Poll(p)
    \/ Sleep(p)

\* the modules run one after the other
Next == Step(1)

Spec == Init /\ [][Next]_vars

\* the while loop of await_vpn_connection_state on its own: the connection
\* was created and tagged, the module waits, and the provider answers with
\* any script
InitWait ==
    /\ kind = "vpn"
    /\ resources = <<NewObject("vpn", 1, VpnBase)>>
    /\ tags = {<<1, "Name", "a">>}
    /\ nextId = 2
    /\ \E t \in WaitTimeouts :
          inv = [p \in Procs |->
                    IF p = 1
                    THEN [IdleInv("vpn") EXCEPT
                              !.pc = "await", !.wait = TRUE, !.wait_timeout = t,
                              !.idx = 1, !.cur = 1,
                              !.calls = <<Call("create", 1, ""), Call("tag", 1, "a")>>]
                    ELSE IdleInv("vpn")]
    /\ prev = [p \in Procs |-> Summary(IdleInv("vpn"))]

AwaitAny(p) == AwaitWith(p, Scripts)

NextWait == AwaitAny(1) \/ Poll(1) \/ Sleep(1)

SpecWait == InitWait /\ [][NextWait]_vars


\* A provider call of the run raises (boto's EC2ResponseError): the call has
\* no effect, nothing in the module catches the exception, and the run ends
\* there without a result.
ProviderError(p) ==
    /\ inv[p].pc \in {"list", "tags", "delete", "create", "tag", "attach_new",
                      "detach", "attach"}
    /\ inv' = [inv EXCEPT ![p] = Fail(@, "provider error")]
    /\ UNCHANGED <<kind, resources, tags, nextId, prev>>

\* the runs whose provider calls may fail start on a provider that has no
\* resource of the kind yet
InitFault ==
    /\ kind \in Kinds
    /\ resources = <<>>
    /\ tags = {}
    /\ nextId = 1
    /\ inv = [p \in Procs |-> IdleInv(kind)]
    /\ prev = [p \in Procs |-> Summary(IdleInv(kind))]

\* the parameters of the runs whose provider calls may fail: two specs of the
\* kind, no wait
FaultSpecs(k) ==
    CASE k = "cgw" -> {CgwBase, [CgwBase EXCEPT !.bgp_asn = 65001]}
      [] k = "vgw" -> {[type |-> "ipsec.1", vpc_id |-> "vpc-A"],
                       [type |-> "ipsec.2", vpc_id |-> "vpc-B"]}
      [] k = "dhcp" -> {DhcpBase, [DhcpBase EXCEPT !.domain_name_servers = None]}
      [] k = "vpn" -> {VpnBase, [VpnBase EXCEPT !.type = "ipsec.2"]}

StartFault(p) == StartWith(p, FaultSpecs(kind), {w \in WaitOptions(kind) : ~w[1]})

\* the modules run one after the other against a provider whose calls may fail
NextFault ==
    \/ StartFault(1)
    \/ List(1)
    \/ GetTags(1)
    \/ Delete(1)
    \/ Create(1)
    \/ Tag(1)
    \/ AttachNew(1)
    \/ Detach(1)
    \/ Attach(1)
    \/ ProviderError(1)

SpecFault == InitFault /\ [][NextFault]_vars

\* two invokers run the module once each (no wait) at the same time on a
\* provider that has no resource of the kind yet; their provider calls
\* interleave freely
StartOnce(p) == inv[p].pc = "idle" /\ StartFault(p)

StepRace(p) ==
    \/ StartOnce(p)
    \/ List(p)
    \/ GetTags(p)
    \/ Delete(p)
    \/ Create(p)
    \/ Tag(p)
    \/ AttachNew(p)
    \/ Detach(p)
    \/ Attach(p)

NextRace == \E p \in Procs : StepRace(p)

SpecRace == InitFault /\ [][NextRace]_vars

----------------------------------------------------------------------------
(* Properties.  The run under way (or just ended) is inv[1]; the run before *)
(* it, when it had the same name and spec, is prev[1].                      *)

I == inv[1]
P == prev[1]

Ended(r) == r.pc \in {"done", "failed"}

\* positions of the listing whose resource carries Name=name in the tag table
MatchesIn(listing, tagtable, name) ==
    {i \in DOMAIN listing : <<listing[i].id, "Name", name>> \in tagtable}

FirstMatch(listing, tagtable, name) ==
    LET m == MatchesIn(listing, tagtable, name)
    IN  IF m = {} THEN 0 ELSE CHOOSE i \in m : \A j \in m : i <= j

\* when the run started no resource carried its name
Fresh(r) == MatchesIn(r.before.resources, r.before.tags, r.name) = {}

TaggedNow(name) == MatchesIn(resources, tags, name) # {}

IsPrefix(s, t) == Len(s) <= Len(t) /\ \A i \in DOMAIN s : s[i] = t[i]

\* C1: a present run that started with no resource tagged Name=name and
\* ended, followed by a present run with the same name and spec: the first
\* reported changed=true, the second ends with changed=false and the same id.
C1_Idempotence ==
    (/\ I.state = "present" /\ Ended(I)
     /\ P.state = "present" /\ P.pc = "done" /\ Fresh(P))
    => /\ P.out.changed
       /\ I.pc = "done"
       /\ ~I.out.changed
       /\ I.out.id = P.out.id

\* C2: a present run that created a resource, followed by an absent run with
\* the same name and spec: the absent run reports the created id among
\* removed_ids and leaves no resource tagged Name=name.
C2_CreateThenAbsent ==
    (/\ I.state = "absent" /\ Ended(I)
     /\ P.state = "present" /\ P.pc = "done" /\ P.out.changed /\ P.cur # 0)
    => /\ I.pc = "done"
       /\ I.out.removed_ids # None
       /\ P.cur \in Range(Get(I.out.removed_ids))
       /\ ~TaggedNow(I.name)

\* the provider calls of the create path, in order
CreatePathCalls(k, r) ==
    <<Call("create", r.cur, ""), Call("tag", r.cur, r.name)>>
    \o (IF k = "vpn" /\ r.wait THEN <<Call("await", r.cur, "available")>> ELSE <<>>)

\* the calls of a run other than the vpn gateway's attach
WithoutAttach(calls) == SelectSeq(calls, LAMBDA c : c.op # "attach")

\* C3: a present run that started with no resource tagged Name=name calls
\* create once, then create_tags (Name, name) on the created id, then (vpn
\* connection with wait only) the await, in that order; when it ends well it
\* reports the created id with changed=true.
C3_CreateTagWait ==
    (I.state = "present" /\ I.pc # "idle" /\ Fresh(I))
    => /\ IsPrefix(WithoutAttach(I.calls), CreatePathCalls(kind, I))
       /\ I.pc = "done" =>
            /\ WithoutAttach(I.calls) = CreatePathCalls(kind, I)
            /\ I.cur \notin Ids(I.before.resources)
            /\ I.out = PresentResult(I.cur, TRUE)

C3_Witness ==
    /\ kind = "vpn" /\ I.state = "present" /\ I.wait /\ Fresh(I)
    /\ I.pc = "done" /\ I.queries > 0

\* the resource a present run compares with: the first of the listing that
\* carried Name=name when the run started
Matched(r) ==
    r.before.resources[FirstMatch(r.before.resources, r.before.tags, r.name)]

\* C4: a present run of the customer gateway module whose first resource
\* tagged Name=name differs from the spec in type, ip_address or bgp_asn makes
\* no create, tag or delete call, leaves listing and tags as they were, and
\* ends failed without an id.
C4_CgwImmutable ==
    (/\ kind = "cgw" /\ I.state = "present" /\ I.pc # "idle" /\ ~Fresh(I)
     /\ \/ I.spec.type # Matched(I).type
        \/ I.spec.ip_address # Matched(I).ip_address
        \/ I.spec.bgp_asn # Matched(I).bgp_asn)
    => /\ I.pc \in {"list", "tags", "failed"}
       /\ I.calls = <<>>
       /\ resources = I.before.resources
       /\ tags = I.before.tags
       /\ I.pc = "failed" =>
            /\ I.out.id = None
            /\ I.out.msg = Some("Customer gateway cannot be modified")

C4_Witness ==
    /\ kind = "cgw" /\ I.state = "present" /\ I.pc = "failed" /\ ~Fresh(I)
    /\ I.spec.type = Matched(I).type
    /\ I.spec.ip_address = Matched(I).ip_address
    /\ I.spec.bgp_asn # Matched(I).bgp_asn

\* C5: a present run of the vpn gateway module on a tagged gateway of the
\* desired type, when it ends well, leaves the gateway attached to vpc_id and
\* to nothing else, and reports its id with changed = (the attachments were
\* not exactly {vpc_id} before).
C5_AttachmentConvergence ==
    (/\ kind = "vgw" /\ I.state = "present" /\ I.pc = "done" /\ ~Fresh(I)
     /\ I.spec.type = Matched(I).type)
    => /\ Exists(Matched(I).id)
       /\ Range(Lookup(Matched(I).id).attachments) = {I.spec.vpc_id}
       /\ I.out.id = Some(Matched(I).id)
       /\ I.out.changed = (Range(Matched(I).attachments) # {I.spec.vpc_id})

C5_Witness ==
    /\ kind = "vgw" /\ I.state = "present" /\ I.pc = "done" /\ ~Fresh(I)
    /\ I.spec.type = Matched(I).type
    /\ Matched(I).attachments = <<"vpc-C", "vpc-A">>
    /\ I.spec.vpc_id = "vpc-B"
    /\ I.out.changed

\* ids of the resources of a listing that carry Name=name, in listing order
RECURSIVE MatchIds(_, _, _)
MatchIds(listing, tagtable, name) ==
    IF listing = <<>> THEN <<>>
    ELSE (IF <<Head(listing).id, "Name", name>> \in tagtable
          THEN <<Head(listing).id>> ELSE <<>>)
         \o MatchIds(Tail(listing), tagtable, name)

DeletedIds(calls) ==
    LET d == SelectSeq(calls, LAMBDA c : c.op = "delete")
    IN  [i \in DOMAIN d |-> d[i].id]

\* C6: an absent run that ends well has called delete for every resource that
\* carried Name=name, not only the first, and none of them is left.
C6_AbsentDeletesAll ==
    (I.state = "absent" /\ I.pc = "done")
    => /\ DeletedIds(I.calls) = MatchIds(I.before.resources, I.before.tags, I.name)
       /\ \A id \in Range(MatchIds(I.before.resources, I.before.tags, I.name)) : ~Exists(id)
       /\ ~TaggedNow(I.name)

C6_Witness ==
    /\ I.state = "absent" /\ I.pc = "done"
    /\ Len(MatchIds(I.before.resources, I.before.tags, I.name)) >= 2
    /\ Len(resources) < Len(I.before.resources)

\* C7: an absent run that ends well reports removed_ids, the ids it deleted
\* in listing order, and changed = (removed_ids is not empty).
C7_AbsentResult ==
    (I.state = "absent" /\ I.pc = "done")
    => /\ I.out.removed_ids = Some(DeletedIds(I.calls))
       /\ I.out.changed = (DeletedIds(I.calls) # <<>>)

\* two option mappings with the same keys and, per key, the same values in
\* any order
SameUpToOrder(d, o) ==
    /\ DOMAIN d = DOMAIN o
    /\ \A k \in DOMAIN d :
          /\ Len(d[k]) = Len(o[k])
          /\ \A v \in Range(d[k]) \cup Range(o[k]) :
                Cardinality({i \in DOMAIN d[k] : d[k][i] = v})
                    = Cardinality({i \in DOMAIN o[k] : o[k][i] = v})

\* C8: a present run of the dhcp module on a tagged options set whose stored
\* mapping equals the desired one up to the order of the values ends well
\* with the existing id and changed=false.
C8_OrderInsensitive ==
    (/\ kind = "dhcp" /\ I.state = "present" /\ Ended(I) /\ ~Fresh(I)
     /\ SameUpToOrder(DesiredOptions(I.spec), Matched(I).options))
    => /\ I.pc = "done"
       /\ I.out = PresentResult(Matched(I).id, FALSE)

\* C9: the wait is bounded by its deadline: a pass of the loop made at or
\* after the deadline (clock >= start + wait_timeout) that did not see the
\* awaited state ends the wait; it never goes on to sleep and poll again.
C9_BoundedByDeadline == ~(I.pc = "sleep" /\ I.clock >= I.deadline)

\* the script pending, ..., pending, available
PendingThenAvailable(answers) ==
    /\ answers # <<>>
    /\ answers[Len(answers)] = "available"
    /\ \A i \in 1..(Len(answers) - 1) : answers[i] = "pending"

\* C10 as stated: answers pending k-1 times and then available; the wait
\* ends well after exactly k state queries and k-1 sleeps.
C10_PollCount ==
    (I.pc = "done" /\ PendingThenAvailable(I.answers))
    => /\ I.queries = Len(I.answers)
       /\ I.sleeps = Len(I.answers) - 1

Max(a, b) == IF a >= b THEN a ELSE b

\* C10 amended: the first answer goes to the initial_state query made before
\* the loop, which neither ends the wait nor is followed by a sleep; the wait
\* ends well after exactly max(k, 2) state queries and max(k-2, 0) sleeps and
\* does not fail.
C10_PollCountAmended ==
    PendingThenAvailable(I.answers)
    => /\ I.pc # "failed"
       /\ I.pc = "done" =>
            /\ I.queries = Max(Len(I.answers), 2)
            /\ I.sleeps = Max(Len(I.answers) - 2, 0)

C10_Witness ==
    /\ I.pc = "done"
    /\ I.answers = <<"pending", "pending", "available">>
    /\ I.queries = 3
    /\ I.sleeps = 1

\* C11: a present run of the vpn connection module whose first resource
\* tagged Name=name has the desired type, customer_gateway_id and
\* vpn_gateway_id never fails and makes no changing call; it ends with the
\* existing id and changed=false, whatever static_routes_only is on either
\* side.
C11_RoutingNotDiffed ==
    (/\ kind = "vpn" /\ I.state = "present" /\ I.pc # "idle" /\ ~Fresh(I)
     /\ I.spec.type = Matched(I).type
     /\ I.spec.customer_gateway_id = Matched(I).customer_gateway_id
     /\ I.spec.vpn_gateway_id = Matched(I).vpn_gateway_id)
    => /\ I.pc \in {"list", "tags", "done"}
       /\ I.calls = <<>>
       /\ I.pc = "done" => I.out = PresentResult(Matched(I).id, FALSE)

C11_Witness ==
    /\ kind = "vpn" /\ I.state = "present" /\ I.pc = "done" /\ ~Fresh(I)
    /\ I.spec.static_routes_only # Matched(I).static_routes_only
    /\ I.out = PresentResult(Matched(I).id, FALSE)

\* no two resources of the kind carry the same Name tag value
UniqueNames ==
    \A n \in Names : Cardinality(MatchesIn(resources, tags, n)) <= 1

\* C12: runs made one after the other, each ending well or failing (a failed
\* provider call included), keep Name tags unique: no step of any run makes
\* two resources carry the same Name tag value when no two did before it.
C12_NameUniqueness == [][UniqueNames => UniqueNames']_vars

C12_Witness ==
    /\ UniqueNames
    /\ I.state = "present" /\ I.pc = "done" /\ I.out.changed
    /\ Cardinality(MatchesIn(I.before.resources, I.before.tags, "b")) = 1
    /\ I.name = "a" /\ TaggedNow("a") /\ TaggedNow("b")

\* the invocations that have made their create call
Created(p) == inv[p].state = "present" /\ inv[p].cur # 0

\* C13: nothing keeps two present runs for the same name apart.  When both
\* have created (each finished its scan before the other's tag was written),
\* the ids differ, and once both have ended well both report changed=true
\* with their own id and two resources carry Name=name.
C13_UnlockedRace ==
    (/\ Created(1) /\ Created(2) /\ inv[1].name = inv[2].name)
    => /\ inv[1].cur # inv[2].cur
       /\ (inv[1].pc = "done" /\ inv[2].pc = "done") =>
            /\ inv[1].out = PresentResult(inv[1].cur, TRUE)
            /\ inv[2].out = PresentResult(inv[2].cur, TRUE)
            /\ {resources[i].id : i \in MatchesIn(resources, tags, inv[1].name)}
                  = {inv[1].cur, inv[2].cur}

C13_Witness ==
    /\ inv[1].state = "present" /\ inv[2].state = "present"
    /\ inv[1].name = inv[2].name
    /\ inv[1].pc = "done" /\ inv[2].pc = "done"
    /\ inv[1].out.changed /\ inv[2].out.changed
    /\ inv[1].out.id # inv[2].out.id
    /\ Cardinality(MatchesIn(resources, tags, inv[1].name)) = 2

\* the effect of a completed call is in the provider state
EffectRemains(r, c) ==
    CASE c.op = "create" -> Exists(c.id)
      [] c.op = "tag" -> <<c.id, "Name", c.arg>> \in tags
      [] c.op = "delete" -> ~Exists(c.id)
      [] c.op = "detach" -> Exists(c.id) /\ c.arg \notin Range(Lookup(c.id).attachments)
      [] c.op = "attach" -> Exists(c.id) /\ c.arg \in Range(Lookup(c.id).attachments)
      [] OTHER -> TRUE

\* a failed run reports no result and what its completed calls did is still
\* there
FailedKeepsEffects ==
    I.pc = "failed"
    => /\ I.out = [NoOut EXCEPT !.msg = I.out.msg]
       /\ I.out.msg # None
       /\ \A i \in DOMAIN I.calls : EffectRemains(I, I.calls[i])

\* C14: a run that failed (a provider call raised, or fail_json was called)
\* reports no success result, makes no further provider call (the provider
\* state stays as it is until another run is started, and that run starts
\* from it), and the effects of the calls it had completed remain.
C14_AbortNoRollback ==
    /\ []FailedKeepsEffects
    /\ [][I.pc = "failed" =>
            /\ resources' = resources /\ tags' = tags /\ nextId' = nextId
            /\ I'.pc = "list" /\ I'.calls = <<>>
            /\ I'.before = [resources |-> resources, tags |-> tags]]_vars

C14_Witness ==
    /\ kind = "vgw" /\ I.pc = "failed" /\ I.out.msg = Some("provider error")
    /\ I.calls = <<Call("detach", 1, "vpc-A")>>
    /\ Lookup(1).attachments = <<>>

\* C15: a present run of the vpn gateway module whose first resource tagged
\* Name=name has another type than the desired one fails with the immutable
\* violation without a detach or attach call; the gateway's attachments are
\* the same before and after.
C15_VgwTypeFirst ==
    (/\ kind = "vgw" /\ I.state = "present" /\ I.pc # "idle" /\ ~Fresh(I)
     /\ I.spec.type # Matched(I).type)
    => /\ I.pc \in {"list", "tags", "failed"}
       /\ I.calls = <<>>
       /\ resources = I.before.resources
       /\ I.pc = "failed" => I.out.msg = Some("VPN gateway cannot be modified in that way")

\* the run before created P.cur and failed before its tag write: the resource
\* was there without a tag when this run started
OrphanLeft ==
    /\ P.state = "present" /\ P.pc = "failed" /\ P.cur # 0
    /\ I.pc # "idle"
    /\ {t \in I.before.tags : t[1] = P.cur} = {}

\* C16: a resource whose run stopped between create and create_tags stays in
\* the provider without a Name tag; the next run with the same name and spec
\* does not match it: a present run that ends well has created a second
\* resource, and an absent run does not delete it.
C16_Orphan ==
    OrphanLeft
    => /\ P.cur \in Ids(I.before.resources)
       /\ Exists(P.cur)
       /\ TagItems(P.cur) = {}
       /\ \A i \in DOMAIN I.calls : I.calls[i].id # P.cur
       /\ (I.state = "present" /\ I.pc = "done") =>
            /\ I.cur \notin Ids(I.before.resources)
            /\ I.out = PresentResult(I.cur, TRUE)
            /\ Exists(I.cur)
       /\ (I.state = "absent" /\ I.pc = "done") => P.cur \notin Range(I.removed)

C16_Witness ==
    /\ OrphanLeft
    /\ I.state = "present" /\ I.pc = "done"
    /\ I.cur # P.cur /\ Exists(I.cur) /\ Exists(P.cur)
    /\ TagItems(P.cur) = {}

\* the detach calls a present run owes a matched gateway, one per attachment
\* to another vpc in the order of the attachments, and then the attach call if
\* the desired vpc is not among the attachments
RECURSIVE DetachCalls(_, _, _)
DetachCalls(id, attachments, vpc_id) ==
    IF attachments = <<>> THEN <<>>
    ELSE (IF Head(attachments) # vpc_id
          THEN <<Call("detach", id, Head(attachments))>> ELSE <<>>)
         \o DetachCalls(id, Tail(attachments), vpc_id)

ExpectedVgwCalls(obj, vpc_id) ==
    DetachCalls(obj.id, obj.attachments, vpc_id)
    \o (IF vpc_id \in Range(obj.attachments)
        THEN <<>> ELSE <<Call("attach", obj.id, vpc_id)>>)

\* C17: a present run of the vpn gateway module on a tagged gateway makes its
\* calls in this order: one detach per attachment to another vpc, then the
\* attach of the desired vpc, and no attach when the desired vpc is already
\* attached.
C17_DetachBeforeAttach ==
    (kind = "vgw" /\ I.state = "present" /\ I.pc # "idle" /\ ~Fresh(I))
    => /\ IsPrefix(I.calls, ExpectedVgwCalls(Matched(I), I.spec.vpc_id))
       /\ Ended(I) => I.calls = ExpectedVgwCalls(Matched(I), I.spec.vpc_id)

C17_Witness ==
    /\ kind = "vgw" /\ I.state = "present" /\ I.pc = "done" /\ ~Fresh(I)
    /\ I.calls = <<Call("detach", Matched(I).id, "vpc-B"),
                   Call("detach", Matched(I).id, "vpc-C"),
                   Call("attach", Matched(I).id, "vpc-A")>>

\* what a present run reports when obj is the resource it compares with
OutcomeOf(k, spec, obj) ==
    IF k = "vgw"
    THEN IF VgwImmutableChanged(spec, obj)
         THEN [NoOut EXCEPT !.msg = Some(FailMsg(k))]
         ELSE PresentResult(obj.id, Range(obj.attachments) # {spec.vpc_id})
    ELSE IF Modified(k, spec, obj)
         THEN [NoOut EXCEPT !.msg = Some(FailMsg(k))]
         ELSE PresentResult(obj.id, FALSE)

\* C18: a present run that finds resources tagged Name=name goes by the first
\* of them in listing order: the scan stops there, the result is the one the
\* first match alone gives, every call is made on it, and every other
\* resource and every tag stays as it was.
C18_FirstMatchWins ==
    (I.state = "present" /\ I.pc # "idle" /\ ~Fresh(I))
    => /\ I.idx <= FirstMatch(I.before.resources, I.before.tags, I.name)
       /\ \A i \in DOMAIN I.calls : I.calls[i].id = Matched(I).id
       /\ \A i \in DOMAIN I.before.resources :
             I.before.resources[i].id # Matched(I).id
                => i \in DOMAIN resources /\ resources[i] = I.before.resources[i]
       /\ tags = I.before.tags
       /\ Ended(I) => I.out = OutcomeOf(kind, I.spec, Matched(I))

\* the first match differs from the spec, a later one does not
C18_Witness ==
    /\ kind = "dhcp" /\ I.state = "present" /\ I.pc = "failed"
    /\ \E i \in MatchesIn(I.before.resources, I.before.tags, I.name) :
          /\ i > FirstMatch(I.before.resources, I.before.tags, I.name)
          /\ ~Modified(kind, I.spec, I.before.resources[i])

\* the q-th state query of the wait was answered with the awaited state and
\* ended the wait there
EndsWait(q) ==
    Answer(I.answers, q) = "available"
    => /\ I.pc = "done"
       /\ I.queries = q
       /\ I.out = PresentResult(I.cur, TRUE)

\* C19 as stated: every state query of the wait that is answered with the
\* awaited state ends the wait well, with no query after it, the first query
\* of the wait included.
C19_EveryQueryEnds == \A q \in 1..I.queries : EndsWait(q)

\* C19 amended: the same for every query made by the loop, whatever the clock
\* is against the deadline; the initial_state query before the loop (the
\* first one) is a snapshot only and does not end the wait, so a wait that
\* ended has made at least two queries.
C19_LoopQueryEnds ==
    /\ \A q \in 2..I.queries : EndsWait(q)
    /\ I.pc = "done" => I.queries >= 2 /\ Answer(I.answers, I.queries) = "available"
    /\ (I.pc = "poll" /\ I.queries = 1) => I.initial_state = Answer(I.answers, 1)

C19_Witness ==
    /\ I.pc = "done"
    /\ I.clock >= I.deadline
    /\ I.initial_state = "available"
    /\ I.answers = <<"available", "pending", "available">>
    /\ I.queries = 3 /\ I.sleeps = 1

Unknown(c) == c \notin {"pending", "available"}

\* C21: a pass of the loop that sees an unknown state sleeps and polls again
\* while the clock is before the deadline, and raises the timeout failure at
\* the first such pass at or after the deadline; the wait fails in no other
\* way.
C21_UnknownState ==
    /\ [][(I.pc = "poll" /\ Unknown(Answer(I.answers, I.queries + 1)))
            => IF I.clock >= I.deadline
               THEN I'.pc = "failed" /\ I'.out.msg # None /\ I'.out.id = None
               ELSE I'.pc = "sleep" /\ I'.queries = I.queries + 1]_vars
    /\ [](I.pc = "failed"
            => Unknown(Answer(I.answers, I.queries)) /\ I.clock >= I.deadline)

\* the unknown state was tolerated before the deadline and failed the wait at
\* the deadline
C21_Witness ==
    /\ I.pc = "failed"
    /\ I.answers = <<"deleted">>
    /\ I.wait_timeout = 2
    /\ I.clock = I.deadline
    /\ I.sleeps = 2 /\ I.queries = 4

\* the option key of a parameter is there exactly when the parameter is set,
\* with the value given
KeyFor(d, key, param, value) ==
    /\ (key \in DOMAIN d) = (param # None)
    /\ param # None => d[key] = value

\* the desired mapping but for the domain-name-servers key
SameButServers(spec, options) ==
    /\ "domain-name-servers" \notin DOMAIN options
    /\ DOMAIN options = DOMAIN DesiredOptions(spec) \ {"domain-name-servers"}
    /\ \A k \in DOMAIN options : options[k] = DesiredOptions(spec)[k]

\* C22: build_options has a key exactly for the parameters that are not None:
\* domain and netbios_node_type as one-element lists (the node type as a
\* string), the server lists as given, an empty list included.  Against a
\* tagged options set that has no domain-name-servers entry and is otherwise
\* as desired, a present run with domain_name_servers = [] fails as an
\* immutable violation, and one with domain_name_servers unset ends with the
\* existing id and changed=false.
C22_UnsetVersusEmpty ==
    (kind = "dhcp" /\ I.pc # "idle")
    => /\ LET d == DesiredOptions(I.spec)
              s == I.spec
          IN  /\ KeyFor(d, "domain-name", s.domain, <<s.domain[1]>>)
              /\ KeyFor(d, "domain-name-servers", s.domain_name_servers, s.domain_name_servers[1])
              /\ KeyFor(d, "ntp-servers", s.ntp_servers, s.ntp_servers[1])
              /\ KeyFor(d, "netbios-name-servers", s.netbios_name_servers, s.netbios_name_servers[1])
              /\ KeyFor(d, "netbios-node-type", s.netbios_node_type,
                        IF s.netbios_node_type = Some(2) THEN <<"2">> ELSE <<"?">>)
              /\ DOMAIN d \subseteq {"domain-name", "domain-name-servers", "ntp-servers",
                                     "netbios-name-servers", "netbios-node-type"}
       /\ (/\ I.state = "present" /\ Ended(I) /\ ~Fresh(I)
           /\ SameButServers(I.spec, Matched(I).options))
          => /\ I.spec.domain_name_servers = Some(<<>>) =>
                   /\ I.pc = "failed"
                   /\ I.out.msg = Some("DHCP options cannot be modified")
                   /\ I.calls = <<>>
             /\ I.spec.domain_name_servers = None =>
                   I.out = PresentResult(Matched(I).id, FALSE)

C22_Witness ==
    /\ kind = "dhcp" /\ I.state = "present" /\ I.pc = "failed" /\ ~Fresh(I)
    /\ I.spec.domain_name_servers = Some(<<>>)
    /\ SameButServers(I.spec, Matched(I).options)

\* ids of the resources that carried Name=name when the run started
NamedBefore(r) == Range(MatchIds(r.before.resources, r.before.tags, r.name))

\* C23: a run for a name makes its delete, tag, attach and detach calls only
\* on resources that carried Name=name when it started or that it created
\* itself; every other resource is still there with the attributes,
\* attachments and tags it had.
C23_Frame ==
    I.pc # "idle"
    => /\ \A i \in DOMAIN I.calls :
             \/ I.calls[i].id \in NamedBefore(I)
             \/ /\ I.calls[i].id = I.cur
                /\ I.cur \notin Ids(I.before.resources)
                /\ I.calls[1] = Call("create", I.cur, "")
       /\ \A i \in DOMAIN I.before.resources :
             LET o == I.before.resources[i]
             IN  o.id \notin NamedBefore(I)
                 => /\ \E j \in DOMAIN resources : resources[j] = o
                    /\ {t \in tags : t[1] = o.id} = {t \in I.before.tags : t[1] = o.id}

\* a gateway of the name lost an attachment that a gateway of another name
\* has and keeps
C23_Witness ==
    /\ kind = "vgw" /\ I.name = "a" /\ I.pc = "done"
    /\ I.calls # <<>> /\ I.calls[1] = Call("detach", 1, "vpc-C")
    /\ Len(resources) = 2
    /\ <<2, "Name", "b">> \in tags
    /\ "vpc-C" \in Range(resources[2].attachments)

\* the calls of a run that change the provider state
Mutating(calls) ==
    SelectSeq(calls, LAMBDA c : c.op \in {"create", "tag", "attach", "detach", "delete"})

\* C24: a run that ends well reports changed=true exactly when it made a
\* create, tag, attach, detach or delete call, and after a run that reports
\* changed=false the listing and the tags are as the run found them.
C24_ChangedTruthful ==
    I.pc = "done"
    => /\ I.out.changed = (Mutating(I.calls) # <<>>)
       /\ ~I.out.changed => (resources = I.before.resources /\ tags = I.before.tags)
       /\ I.out.changed => (resources # I.before.resources \/ tags # I.before.tags)

C24_Witness ==
    /\ kind = "dhcp" /\ I.state = "absent" /\ I.pc = "done"
    /\ I.out.changed
    /\ Len(Mutating(I.calls)) = 2

\* the run before created and tagged the connection and then gave up waiting
TimedOutBefore ==
    /\ P.state = "present" /\ P.pc = "failed" /\ P.wait /\ P.cur # 0
    /\ P.out.msg = Some("The vpn connection failed to be in the available state within the timeout period.")

\* C25: a present run of the vpn connection module that finds a tagged
\* connection never queries or awaits its state, with wait set or not; so
\* the run after one that created, tagged and then timed out, with the same
\* name and spec, ends with that connection's id and changed=false without a
\* state query.
C25_WaitOnCreateOnly ==
    (kind = "vpn" /\ I.state = "present" /\ I.pc # "idle")
    => /\ ~Fresh(I) =>
            /\ I.pc \notin {"await", "poll", "sleep"}
            /\ I.queries = 0 /\ I.sleeps = 0
            /\ \A i \in DOMAIN I.calls : I.calls[i].op # "await"
       /\ (TimedOutBefore /\ Ended(I)) =>
            /\ I.out = PresentResult(P.cur, FALSE)
            /\ I.queries = 0 /\ I.sleeps = 0

C25_Witness ==
    /\ kind = "vpn" /\ I.state = "present" /\ I.pc = "done" /\ I.wait
    /\ TimedOutBefore
    /\ I.out = PresentResult(P.cur, FALSE)
    /\ I.queries = 0

\* the spec of the run differs from the resource in a compared attribute
Differs(k, spec, obj) ==
    IF k = "vgw"
    THEN VgwImmutableChanged(spec, obj) \/ Range(obj.attachments) # {spec.vpc_id}
    ELSE Modified(k, spec, obj)

\* C26: an absent run looks at the Name tag alone: whatever the attributes of
\* the tagged resources and of the spec, it never fails, its only calls are
\* deletes, and when it ends every resource that carried Name=name has been
\* deleted.
C26_AbsentIgnoresAttributes ==
    (I.state = "absent" /\ I.pc # "idle")
    => /\ I.pc # "failed"
       /\ I.out.msg = None
       /\ \A i \in DOMAIN I.calls : I.calls[i].op = "delete"
       /\ IsPrefix(DeletedIds(I.calls), MatchIds(I.before.resources, I.before.tags, I.name))
       /\ I.pc = "done" =>
            /\ Len(I.calls) = Len(MatchIds(I.before.resources, I.before.tags, I.name))
            /\ NamedBefore(I) \cap Ids(resources) = {}
            /\ Len(resources) = Len(I.before.resources) - Len(I.calls)

\* a resource that a present run with the same spec would have refused was
\* deleted
C26_Witness ==
    /\ I.state = "absent" /\ I.pc = "done" /\ ~Fresh(I)
    /\ Differs(kind, I.spec, Matched(I))
    /\ ~Exists(Matched(I).id)

====
